---- MODULE Spec2Model ----
(***************************************************************************)
(* A model of geopandas.GeoSeries (src/geopandas/geoseries.py): a labelled *)
(* sequence of geometries with one crs and one name, built on the pandas   *)
(* Series whose methods it wraps.                                          *)
(*                                                                         *)
(* An element is a record [k, x]: a point geometry with coordinate x       *)
(* (k = "geom"), the empty geometry BaseGeometry() (k = "empty"), a        *)
(* missing marker None/NaN (k = "na"), an integer (k = "int") or a list of *)
(* two or more values (k = "list").  A series object is a record           *)
(* [cls, labels, values, name, crs, sindex]; cls is "GeoSeries" or         *)
(* "Series", and the string "None" stands for Python's None.               *)
(***************************************************************************)
EXTENDS Integers, Sequences, FiniteSets, TLC

\* Longest sequence the model builds; labels are drawn from 0..MaxLen.
MaxLen == 2

\* Most method calls made, one on the result of another, after construction.
MaxOps == 2

Labels == 0..MaxLen

VARIABLES
    recv,   \* the receiver of the last call, as the call left it
    pre,    \* the receiver of the last call, as it was before the call
    out,    \* what the last call returned (or raised)
    call,   \* the last call: the method and its arguments
    nops    \* the number of method calls made since construction

vars == <<recv, pre, out, call, nops>>

---------------------------------------------------------------------------
(* Elements *)

Point(x) == [k |-> "geom", x |-> x]
EmptyGeom == [k |-> "empty", x |-> 0]
Missing == [k |-> "na", x |-> 0]
IntVal == [k |-> "int", x |-> 7]
ListVal == [k |-> "list", x |-> 0]

\* isinstance(item, BaseGeometry)
IsGeometry(e) == e.k \in {"geom", "empty"}

\* pd.isna(item): a boolean for a scalar, an array of booleans for a list.
PdIsna(e) ==
    CASE e.k = "na" -> "True"
      [] e.k = "list" -> "array"
      [] OTHER -> "False"

\* _is_empty(x): x.is_empty, and False when the attribute lookup fails.
_is_empty(e) == IF IsGeometry(e) THEN e.k = "empty" ELSE FALSE

\* isinstance(item, BaseGeometry) or pd.isna(item)
ItemCheck(e) == IF IsGeometry(e) THEN "True" ELSE PdIsna(e)

\* _validate_geometry_data: all(...) stops at the first item whose check is
\* not true.  A false check raises the TypeError of line 30; the truth value
\* of an array of two or more booleans is ambiguous, which raises ValueError
\* inside all(...).
_validate_geometry_data(data) ==
    LET bad == {i \in 1..Len(data) : ItemCheck(data[i]) # "True"}
    IN  IF bad = {} THEN "ok"
        ELSE LET i == CHOOSE j \in bad : \A m \in bad : j <= m
             IN  IF ItemCheck(data[i]) = "array" THEN "ValueError"
                 ELSE "TypeError"

---------------------------------------------------------------------------
(* Series objects and call results *)

\* GeoPandasBase._invalidate_sindex: no index cached, none generated.
NoSindex == [gen |-> FALSE, ents |-> {}]

\* Series(data, index=index, name=name)
PlainSeries(data, index, name) ==
    [cls |-> "Series", labels |-> index, values |-> data, name |-> name,
     crs |-> "None", sindex |-> NoSindex]

NoObj == PlainSeries(<<>>, <<>>, "None")

Ret(obj) == [tag |-> "series", ser |-> obj, ser2 |-> NoObj, mask |-> <<>>, err |-> "None"]
RetPair(l, r) == [tag |-> "pair", ser |-> l, ser2 |-> r, mask |-> <<>>, err |-> "None"]
RetMask(m) == [tag |-> "mask", ser |-> NoObj, ser2 |-> NoObj, mask |-> m, err |-> "None"]
RetNone == [tag |-> "none", ser |-> NoObj, ser2 |-> NoObj, mask |-> <<>>, err |-> "None"]
Raise(e) == [tag |-> "error", ser |-> NoObj, ser2 |-> NoObj, mask |-> <<>>, err |-> e]

\* The dtype pandas infers for the data: numeric (not object) when the data
\* is empty or holds integers and missing markers only.
NumericDtype(data) ==
    \/ data = <<>>
    \/ /\ \E i \in 1..Len(data) : data[i].k = "int"
       /\ \A i \in 1..Len(data) : data[i].k \in {"int", "na"}

\* GeoSeries.__new__(cls, data, index, crs, name=name): the plain Series s
\* when its dtype is not object or the validation raises TypeError, else a
\* GeoSeries with the crs and no spatial index.  Any other exception of the
\* validation propagates.
__new__(data, index, crs, name) ==
    LET s == PlainSeries(data, index, name)
    IN  IF NumericDtype(data) /\ data # <<>> THEN Ret(s)
        ELSE CASE _validate_geometry_data(data) = "TypeError" -> Ret(s)
               [] _validate_geometry_data(data) = "ValueError" -> Raise("ValueError")
               [] OTHER -> Ret([s EXCEPT !.cls = "GeoSeries", !.crs = crs,
                                         !.sindex = NoSindex])

\* __finalize__(self, other): GeoSeries copies _metadata = ['name', 'crs']
\* from other; a plain Series copies its own _metadata, ['name'].
FinalizeWithSindex(obj, other) ==
    IF obj.cls = "GeoSeries"
    THEN [obj EXCEPT !.name = other.name, !.crs = other.crs, !.sindex = other.sindex]
    ELSE [obj EXCEPT !.name = other.name]
__finalize__(obj, other) ==
    IF obj.cls = "GeoSeries"
    THEN [obj EXCEPT !.name = other.name, !.crs = other.crs]
    ELSE [obj EXCEPT !.name = other.name]

\* self._constructor(values, index=labels).__finalize__(self), the way every
\* pandas method builds its result: _constructor is GeoSeries for a
\* GeoSeries and Series for a plain Series.
Constructed(self, labels, values) ==
    LET r == IF self.cls = "GeoSeries" THEN __new__(values, labels, "None", "None")
             ELSE Ret(PlainSeries(values, labels, "None"))
    IN  IF r.tag = "error" THEN r ELSE Ret(__finalize__(r.ser, self))

\* _wrapped_pandas_method, given the value val the pandas method returned.
_wrapped_pandas_method(self, val) ==
    IF val.tag = "series" /\ val.ser.cls = "Series"
    THEN Ret([val.ser EXCEPT !.cls = "GeoSeries", !.crs = self.crs,
                             !.sindex = NoSindex])
    ELSE val

---------------------------------------------------------------------------
(* Inputs *)

SeqsUpTo(S, n) == UNION {[1..m -> S] : m \in 0..n}

Elems == {Point(1), EmptyGeom, Missing, IntVal, ListVal}
CrsSet == {"epsg:4326", "epsg:3857"}
Names == {"geometry"}

\* The index argument: None (a RangeIndex 0..n-1) or the same labels reversed.
IndexChoices(n) == {[i \in 1..n |-> i - 1], [i \in 1..n |-> n - i]}

\* The second operand of append and align: a one-element Series or GeoSeries.
Operands ==
    {__new__(<<e>>, <<l>>, "None", "geometry").ser :
        e \in {Point(1), IntVal}, l \in {0, MaxLen}}

\* The value argument of fillna; a missing marker stands for value=None.
FillValues == {Missing, Point(1), IntVal}

\* The epsg argument of to_crs.
EpsgCodes == {"3857"}

NoCall ==
    [op |-> "GeoSeries", data |-> <<>>, index |-> <<>>, lo |-> 0, hi |-> 0,
     val |-> Missing, inplace |-> FALSE, crs |-> "None", epsg |-> "None",
     other |-> NoObj, name |-> "None"]

\* The object the next method is called on: the last result when it is
\* typed as a GeoSeries (s = s.op(...)), else the last receiver.
Receivers ==
    IF out.ser.cls = "GeoSeries" THEN {out.ser}
    ELSE {o \in {recv} : o.cls = "GeoSeries"}

IsUnique(labels) ==
    \A i, j \in 1..Len(labels) : labels[i] = labels[j] => i = j

Perms(n) == {p \in [1..n -> 1..n] : \A i, j \in 1..n : p[i] = p[j] => i = j}

---------------------------------------------------------------------------
(* The state after GeoSeries(data, index=index, crs=crs, name=name) *)

Constructor(data, index, crs, name) ==
    /\ out = __new__(data, index, crs, name)
    /\ call = [NoCall EXCEPT !.data = data, !.index = index, !.crs = crs,
                             !.name = name]
    /\ recv = out.ser
    /\ pre = NoObj
    /\ nops = 0

\* A constructed GeoSeries has no crs or the crs epsg:4326.
Init ==
    \E data \in SeqsUpTo(Elems, MaxLen), crs \in {"None", "epsg:4326"}, name \in Names :
      \E index \in IndexChoices(Len(data)) : Constructor(data, index, crs, name)

---------------------------------------------------------------------------
(* Operations *)

\* Series.__getitem__(slice(lo, hi)): the positions lo..hi-1 (0-based).
PandasGetItem(self, lo, hi) ==
    Constructed(self, SubSeq(self.labels, lo + 1, hi), SubSeq(self.values, lo + 1, hi))

\* GeoSeries.__getitem__(key), key a slice
__getitem__(self, lo, hi) ==
    /\ out' = _wrapped_pandas_method(self, PandasGetItem(self, lo, hi))
    /\ call' = [NoCall EXCEPT !.op = "__getitem__", !.lo = lo, !.hi = hi]
    /\ recv' = self
    /\ pre' = self

\* Series.take(indices): indices are positions, written 1-based here.
PandasTake(self, indices) ==
    Constructed(self, [i \in 1..Len(indices) |-> self.labels[indices[i]]],
                      [i \in 1..Len(indices) |-> self.values[indices[i]]])

\* GeoSeries.take(indices)
take(self, indices) ==
    /\ out' = _wrapped_pandas_method(self, PandasTake(self, indices))
    /\ call' = [NoCall EXCEPT !.op = "take", !.index = indices]
    /\ recv' = self
    /\ pre' = self

\* Series.sort_index(): the argsort p of the labels (ties in any order).
SortPerms(labels) ==
    {p \in Perms(Len(labels)) :
        \A i, j \in 1..Len(labels) : i < j => labels[p[i]] <= labels[p[j]]}
PandasSortIndex(self, p) ==
    Constructed(self, [i \in 1..Len(p) |-> self.labels[p[i]]],
                      [i \in 1..Len(p) |-> self.values[p[i]]])

\* GeoSeries.sort_index()
sort_index(self, p) ==
    /\ out' = _wrapped_pandas_method(self, PandasSortIndex(self, p))
    /\ call' = [NoCall EXCEPT !.op = "sort_index", !.index = p]
    /\ recv' = self
    /\ pre' = self

\* GeoSeries.copy(): GeoSeries(values.copy(), index, name).__finalize__(self)
CopyResult(self) ==
    LET r == __new__(self.values, self.labels, "None", self.name)
    IN  IF r.tag = "error" THEN r ELSE Ret(__finalize__(r.ser, self))
copy(self) ==
    /\ out' = CopyResult(self)
    /\ call' = [NoCall EXCEPT !.op = "copy"]
    /\ recv' = self
    /\ pre' = self

\* The positions of a set, in increasing order.
RECURSIVE SortSet(_)
SortSet(S) ==
    IF S = {} THEN <<>>
    ELSE LET m == CHOOSE x \in S : \A y \in S : x <= y
         IN  <<m>> \o SortSet(S \ {m})

\* Series.select(crit): reindex to the labels crit accepts.  A reindex to the
\* identical index is self.copy(); a reindex of duplicate labels raises.
PandasSelect(self, crit) ==
    LET keep == SortSet({i \in 1..Len(self.labels) : self.labels[i] \in crit})
    IN  IF Len(keep) = Len(self.labels) THEN CopyResult(self)
        ELSE IF ~IsUnique(self.labels) THEN Raise("ValueError")
        ELSE Constructed(self, [i \in 1..Len(keep) |-> self.labels[keep[i]]],
                               [i \in 1..Len(keep) |-> self.values[keep[i]]])

\* GeoSeries.select(crit)
select(self, crit) ==
    /\ out' = _wrapped_pandas_method(self, PandasSelect(self, crit))
    /\ call' = [NoCall EXCEPT !.op = "select", !.index = SortSet(crit)]
    /\ recv' = self
    /\ pre' = self

\* Series.append(other), a concat of the two: the values and labels of self
\* followed by those of other, under the name both share; the result is
\* built by self._constructor and finalized from the concatenating helper,
\* which carries neither a name nor a crs.
PandasAppend(self, other) ==
    LET name == IF self.name = other.name THEN self.name ELSE "None"
        r == __new__(self.values \o other.values, self.labels \o other.labels,
                 "None", name)
    IN  IF r.tag = "error" THEN r
        ELSE IF r.ser.cls = "GeoSeries" THEN Ret(__finalize__(r.ser, NoObj))
        ELSE r

\* GeoSeries.append(other)
append(self, other) ==
    /\ Len(self.values) + Len(other.values) <= MaxLen
    /\ out' = _wrapped_pandas_method(self, PandasAppend(self, other))
    /\ call' = [NoCall EXCEPT !.op = "append", !.other = other]
    /\ recv' = self
    /\ pre' = self

\* GeoSeries.isna(): Series.isnull() or'ed with apply(_is_empty).
IsNaMask(self) ==
    [i \in 1..Len(self.values) |->
        self.values[i].k = "na" \/ _is_empty(self.values[i])]
isna(self) ==
    /\ out' = RetMask(IsNaMask(self))
    /\ call' = [NoCall EXCEPT !.op = "isna"]
    /\ recv' = self
    /\ pre' = self

\* Series.fillna(value): value at the positions pandas holds null.
FilledEmptyToo(values, value) ==
    [i \in 1..Len(values) |->
        IF values[i].k \in {"na", "empty"} THEN value ELSE values[i]]
Filled(values, value) ==
    [i \in 1..Len(values) |-> IF values[i].k = "na" THEN value ELSE values[i]]

\* The value GeoSeries.fillna passes on: BaseGeometry() for None.
FillValue(value) == IF value = Missing THEN EmptyGeom ELSE value

\* obj.fillna(value), not in place
FillnaResult(obj, value) ==
    Constructed(obj, obj.labels, Filled(obj.values, FillValue(value)))

\* GeoSeries.fillna(value=value, inplace=inplace)
fillna(self, value, inplace) ==
    /\ call' = [NoCall EXCEPT !.op = "fillna", !.val = value, !.inplace = inplace]
    /\ pre' = self
    /\ IF inplace
       THEN /\ recv' = [self EXCEPT !.values = Filled(self.values, FillValue(value))]
            /\ out' = RetNone
       ELSE /\ recv' = self
            /\ out' = FillnaResult(self, value)

\* Series.align's reindex of obj to the joined labels: the element of obj
\* at each label, a missing marker at a label obj does not have.
Reindexed(obj, join) ==
    [i \in 1..Len(join) |->
        IF \E j \in 1..Len(obj.labels) : obj.labels[j] = join[i]
        THEN obj.values[CHOOSE j \in 1..Len(obj.labels) : obj.labels[j] = join[i]]
        ELSE Missing]

\* One side of Series.align(join='outer', fill_value=fill): obj.copy() when
\* obj already has the joined index, else obj._constructor(reindexed,
\* index=join); then fillna(fill) on that, which fills every missing marker
\* of the side, and __finalize__ from obj.
AlignSide(obj, join, fill) ==
    LET side == IF join = obj.labels THEN CopyResult(obj).ser
                ELSE IF obj.cls = "GeoSeries"
                THEN __new__(Reindexed(obj, join), join, "None", "None").ser
                ELSE PlainSeries(Reindexed(obj, join), join, "None")
    IN  __finalize__(FillnaResult(side, fill).ser, obj)

\* The outer join of two unique indexes: the index itself when both are
\* equal, else the sorted union of the labels.
OuterJoin(a, b) ==
    IF a = b THEN a
    ELSE SortSet({a[i] : i \in 1..Len(a)} \cup {b[i] : i \in 1..Len(b)})

\* GeoSeries.align(other, join='outer'): fill_value is None, so BaseGeometry().
\* The join of an index that repeats a label is left out of the model.
align(self, other) ==
    /\ IsUnique(self.labels)
    /\ LET join == OuterJoin(self.labels, other.labels)
       IN  out' = RetPair(AlignSide(self, join, EmptyGeom),
                          AlignSide(other, join, EmptyGeom))
    /\ call' = [NoCall EXCEPT !.op = "align", !.other = other]
    /\ recv' = self
    /\ pre' = self

\* fiona.crs.from_epsg(code): the descriptor of an EPSG code.
FromEpsg(epsg) ==
    CASE epsg = "4326" -> "epsg:4326"
      [] epsg = "3857" -> "epsg:3857"

\* The pyproj transform between two descriptors, on one coordinate: each
\* reference system places the origin at its own offset.
Offset(crs) == IF crs = "epsg:3857" THEN 10 ELSE 0
Project(src, dst, x) == x - Offset(src) + Offset(dst)

\* shapely.ops.transform(project, geom): it reads geom.is_empty first, so an
\* empty geometry comes back as it is and anything that is no geometry
\* (None included) raises AttributeError.
Transform(src, dst, e) ==
    IF e.k = "geom" THEN Point(Project(src, dst, e.x)) ELSE e
TransformRaises(e) == ~IsGeometry(e)

\* to_crs from line 343 on: resolve the destination, apply the transform to
\* every element, retag the result and set its crs.
Reproject(self, crs, epsg) ==
    IF crs = "None" /\ epsg = "None" THEN Raise("TypeError")
    ELSE LET dst == IF crs = "None" THEN FromEpsg(epsg) ELSE crs
             mapped == [i \in 1..Len(self.values) |->
                           Transform(self.crs, dst, self.values[i])]
             applied == Constructed(self, self.labels, mapped)
         IN  IF \E i \in 1..Len(self.values) : TransformRaises(self.values[i])
             THEN Raise("AttributeError")
             ELSE IF applied.tag = "error" THEN applied
             ELSE Ret([applied.ser EXCEPT !.cls = "GeoSeries", !.crs = dst,
                                          !.sindex = NoSindex])

\* GeoSeries.to_crs(crs=crs, epsg=epsg)
ToCrsDestinationFirst(self, crs, epsg) ==
    IF crs = "None" /\ epsg = "None" THEN Raise("TypeError")
    ELSE IF self.crs = "None" THEN Raise("ValueError")
    ELSE Reproject(self, crs, epsg)
ToCrsResult(self, crs, epsg) ==
    IF self.crs = "None" THEN Raise("ValueError")
    ELSE Reproject(self, crs, epsg)

to_crs(self, crs, epsg) ==
    /\ out' = ToCrsResult(self, crs, epsg)
    /\ call' = [NoCall EXCEPT !.op = "to_crs", !.crs = crs, !.epsg = epsg]
    /\ recv' = self
    /\ pre' = self

\* The entries of a spatial index over the values: one per position that
\* holds a geometry that is not empty.
SindexEntries(values) ==
    {<<i, values[i].x>> : i \in {j \in 1..Len(values) : values[j].k = "geom"}}

\* GeoPandasBase.sindex: generate the index on first use, then serve the
\* cached one.  Generating reads is_empty of every element that is not
\* missing, which raises on a value that is no geometry.
sindex(self) ==
    /\ IF self.sindex.gen THEN recv' = self /\ out' = RetNone
       ELSE IF \E i \in 1..Len(self.values) : self.values[i].k \in {"int", "list"}
       THEN recv' = self /\ out' = Raise("AttributeError")
       ELSE /\ recv' = [self EXCEPT !.sindex = [gen |-> TRUE,
                                                ents |-> SindexEntries(self.values)]]
            /\ out' = RetNone
    /\ call' = [NoCall EXCEPT !.op = "sindex"]
    /\ pre' = self

\* The arguments drawn for take (distinct positions, in any order) and for
\* select (the criterion accepts one label, or every label).
TakeInputs(self) ==
    {s \in SeqsUpTo(1..Len(self.values), Len(self.values)) : IsUnique(s)}
SelectInputs == {{l} : l \in Labels} \cup {Labels}

\* A method call counts towards MaxOps.
Call(method) ==
    /\ nops < MaxOps
    /\ nops' = nops + 1
    /\ method

Next ==
    \/ \E self \in Receivers : \E lo \in 0..Len(self.values) :
         \E hi \in lo..Len(self.values) : Call(__getitem__(self, lo, hi))
    \/ \E self \in Receivers : \E indices \in TakeInputs(self) :
         Call(take(self, indices))
    \/ \E self \in Receivers : \E p \in SortPerms(self.labels) :
         Call(sort_index(self, p))
    \/ \E self \in Receivers : Call(copy(self))
    \/ \E self \in Receivers : \E crit \in SelectInputs : Call(select(self, crit))
    \/ \E self \in Receivers : \E other \in Operands : Call(append(self, other))
    \/ \E self \in Receivers : Call(isna(self))
    \/ \E self \in Receivers : \E value \in FillValues : \E inplace \in BOOLEAN :
         Call(fillna(self, value, inplace))
    \/ \E self \in Receivers : \E other \in Operands :
         other.cls = "GeoSeries" /\ Call(align(self, other))
    \/ \E self \in Receivers : \E crs \in CrsSet \cup {"None"} :
         \E epsg \in EpsgCodes \cup {"None"} : Call(to_crs(self, crs, epsg))
    \/ \E self \in Receivers : Call(sindex(self))

Spec == Init /\ [][Next]_vars

---------------------------------------------------------------------------
(* Properties *)

IsGeoSeriesResult == out.tag = "series" /\ out.ser.cls = "GeoSeries"

\* I2 for one object: every element is a geometry or a missing marker.
HoldsGeometries(o) ==
    \A i \in 1..Len(o.values) : o.values[i].k \in {"geom", "empty", "na"}

HasForeign(data) == \E i \in 1..Len(data) : data[i].k \in {"int", "list"}

\* The positions of the receiver the last call selected, in result order.
Positions ==
    CASE call.op = "__getitem__" -> [i \in 1..(call.hi - call.lo) |-> call.lo + i]
      [] call.op \in {"take", "sort_index"} -> call.index
      [] OTHER -> [i \in 1..Len(pre.values) |-> i]

SamePairs(res, src, pos) ==
    /\ Len(res.labels) = Len(pos)
    /\ Len(res.values) = Len(pos)
    /\ \A i \in 1..Len(pos) :
         res.labels[i] = src.labels[pos[i]] /\ res.values[i] = src.values[pos[i]]

\* The destination descriptor of the last to_crs call.
DestinationSupplied == call.crs # "None" \/ call.epsg # "None"
Destination == IF call.crs = "None" THEN FromEpsg(call.epsg) ELSE call.crs

\* C1: constructing a GeoSeries from data that holds a value that is neither
\* a geometry nor a missing marker never raises; it returns a plain Series
\* with the values and labels of the input.
C1_FallbackNeverRaises ==
    (call.op = "GeoSeries" /\ HasForeign(call.data)) =>
        /\ out.tag = "series"
        /\ out.ser.cls = "Series"
        /\ out.ser.values = call.data
        /\ out.ser.labels = call.index

\* C2: a slice, take, sort_index or copy of a GeoSeries, after any sequence
\* of calls, is a GeoSeries with the receiver's crs and name whose (label,
\* element) pairs are those of the positions it selected.
C2_ShapePreserved ==
    call.op \in {"__getitem__", "take", "sort_index", "copy"} =>
        /\ IsGeoSeriesResult
        /\ out.ser.crs = pre.crs
        /\ out.ser.name = pre.name
        /\ SamePairs(out.ser, pre, Positions)

\* C2 on the receivers that satisfy I2: there the property holds.
P1OnGeometryReceivers ==
    (call.op \in {"__getitem__", "take", "sort_index", "copy"} /\ HoldsGeometries(pre)) =>
        /\ IsGeoSeriesResult
        /\ out.ser.crs = pre.crs
        /\ out.ser.name = pre.name
        /\ SamePairs(out.ser, pre, Positions)

\* C3: invariant I2: every object typed as a GeoSeries, the receiver or a
\* result, holds only geometries and missing markers.
C3_OnlyGeometries ==
    \A o \in {recv, out.ser, out.ser2} : o.cls = "GeoSeries" => HoldsGeometries(o)

\* C4: to_crs on a GeoSeries whose crs is unset raises ValueError whatever
\* the crs and epsg arguments are; no result is produced and the receiver
\* is unchanged.
C4_NaiveGeometriesRejected ==
    (call.op = "to_crs" /\ pre.crs = "None") =>
        /\ out = Raise("ValueError")
        /\ recv = pre

C4_Witness ==
    /\ call.op = "to_crs"
    /\ pre.crs = "None"
    /\ call.crs = "None"
    /\ call.epsg = "None"
    /\ pre.values = [i \in 1..MaxLen |-> Point(1)]
    /\ out.tag = "error"

\* C5: to_crs on a GeoSeries with a crs, given a destination, returns a new
\* GeoSeries with the labels and the name of the receiver, each present
\* element transformed, and the destination as crs; the receiver keeps its
\* elements and its crs.
C5_Reprojected ==
    (call.op = "to_crs" /\ pre.crs # "None" /\ DestinationSupplied) =>
        /\ IsGeoSeriesResult
        /\ out.ser.labels = pre.labels
        /\ out.ser.name = pre.name
        /\ out.ser.crs = Destination
        /\ Len(out.ser.values) = Len(pre.values)
        /\ \A i \in 1..Len(pre.values) :
             IsGeometry(pre.values[i]) =>
                out.ser.values[i] = Transform(pre.crs, Destination, pre.values[i])
        /\ recv = pre

\* C5 on the receivers that hold geometries only: there the property holds.
ReprojectedWhenAllPresent ==
    (/\ call.op = "to_crs" /\ pre.crs # "None" /\ DestinationSupplied
     /\ \A i \in 1..Len(pre.values) : IsGeometry(pre.values[i])) =>
        /\ IsGeoSeriesResult
        /\ out.ser.labels = pre.labels
        /\ out.ser.name = pre.name
        /\ out.ser.crs = Destination
        /\ Len(out.ser.values) = Len(pre.values)
        /\ \A i \in 1..Len(pre.values) :
             out.ser.values[i] = Transform(pre.crs, Destination, pre.values[i])
        /\ recv = pre

\* C6: to_crs on a GeoSeries with a crs that holds missing markers completes
\* without error, and the result has a missing marker exactly where the
\* receiver has one.
C6_MissingLeftUntouched ==
    (/\ call.op = "to_crs" /\ pre.crs # "None" /\ DestinationSupplied
     /\ HoldsGeometries(pre)
     /\ \E i \in 1..Len(pre.values) : pre.values[i].k = "na") =>
        /\ IsGeoSeriesResult
        /\ Len(out.ser.values) = Len(pre.values)
        /\ \A i \in 1..Len(pre.values) :
             (pre.values[i].k = "na") <=> (out.ser.values[i].k = "na")

\* The elements of the receiver after the last fillna call: its own when the
\* call was in place, else those of the result.
AfterFillna == IF call.inplace THEN recv.values ELSE out.ser.values

\* C7: isna is true exactly at the missing markers and the empty geometries;
\* fillna(value), value defaulting to the empty geometry, replaces the
\* missing markers only and leaves every geometry, empty or not, as it is.
C7_NullEmptyDistinction ==
    /\ call.op = "isna" =>
         /\ out.tag = "mask"
         /\ Len(out.mask) = Len(pre.values)
         /\ \A i \in 1..Len(pre.values) :
              out.mask[i] <=> pre.values[i].k \in {"na", "empty"}
    /\ call.op = "fillna" =>
         /\ Len(AfterFillna) = Len(pre.values)
         /\ \A i \in 1..Len(pre.values) :
              AfterFillna[i] =
                 IF pre.values[i].k = "na"
                 THEN (IF call.val = Missing THEN EmptyGeom ELSE call.val)
                 ELSE pre.values[i]

C7_Witness ==
    /\ call.op = "fillna"
    /\ call.val = Point(1)
    /\ ~call.inplace
    /\ \E i, j \in 1..Len(pre.values) :
         /\ pre.values[i] = Missing
         /\ pre.values[j] = EmptyGeom
         /\ out.ser.values[i] = Point(1)
         /\ out.ser.values[j] = EmptyGeom

\* C8: the GeoSeries that to_crs, a slice, take or sort_index returns
\* carries no cached spatial index, so its index is generated from its own
\* elements on first use.
C8_ResultIndexInvalidated ==
    (call.op \in {"to_crs", "__getitem__", "take", "sort_index"} /\ IsGeoSeriesResult) =>
        out.ser.sindex = NoSindex

C8_Witness ==
    /\ call.op \in {"to_crs", "__getitem__", "take", "sort_index"}
    /\ pre.sindex.gen
    /\ pre.sindex.ents # {}
    /\ IsGeoSeriesResult
    /\ out.ser.values # <<>>
    /\ out.ser.sindex = NoSindex

\* The element of o at label l (labels unique).
At(o, l) == o.values[CHOOSE j \in 1..Len(o.labels) : o.labels[j] = l]
HasLabel(o, l) == \E j \in 1..Len(o.labels) : o.labels[j] = l

\* One output of align against its input: the input's element at every
\* label the input has, the empty geometry at every other label.
AlignedFrom(res, src) ==
    \A i \in 1..Len(res.labels) :
        res.values[i] = IF HasLabel(src, res.labels[i]) THEN At(src, res.labels[i])
                        ELSE EmptyGeom

\* C9: a.align(b, join='outer') returns two sequences of equal length over
\* the union of the labels; each holds its input's element at the labels
\* of its input and the empty geometry at the others.
C9_OuterAlign ==
    call.op = "align" =>
        /\ out.tag = "pair"
        /\ out.ser.labels = out.ser2.labels
        /\ Len(out.ser.values) = Len(out.ser.labels)
        /\ Len(out.ser2.values) = Len(out.ser.labels)
        /\ {out.ser.labels[i] : i \in 1..Len(out.ser.labels)} =
             {pre.labels[i] : i \in 1..Len(pre.labels)}
               \cup {call.other.labels[i] : i \in 1..Len(call.other.labels)}
        /\ AlignedFrom(out.ser, pre)
        /\ AlignedFrom(out.ser2, call.other)

\* C10: a cached spatial index was generated from the current elements of
\* its GeoSeries, in place changes included.
C10_IndexMatchesElements ==
    \A o \in {recv, out.ser} :
        (o.cls = "GeoSeries" /\ o.sindex.gen) => o.sindex.ents = SindexEntries(o.values)

====
